---------------------------- MODULE Spec2Model ----------------------------
(***************************************************************************)
(* A model of the fp-reverse-proxy gateway (src/src/main.rs): the server   *)
(* bootstrap (CORS policy), the two request handlers list_drivers and      *)
(* get_prices with their outbound call, body read and JSON decoding, and   *)
(* the price normalizer (the fold of get_prices) with its single-precision *)
(* arithmetic.                                                             *)
(*                                                                         *)
(* Decimal numbers on the wire are integers counted in thousandths         *)
(* ("mills": 49.99 is 49990).  An f32 is a record [m, e] standing for      *)
(* m * 2^e, with m = 0 or 2^23 <= |m| < 2^24.                              *)
(***************************************************************************)
EXTENDS Integers, Sequences, FiniteSets

(***************************************************************************)
(* Bounds of the model.                                                    *)
(***************************************************************************)
\* number of concurrently handled requests
NumReqs == 2
\* longest upstream driver array
MaxDrivers == 2
\* longest upstream Results array of a gateway request
MaxResults == 2
\* longest quote sequence fed to the normalizer alone
MaxQuotes == 3
\* largest discounted price (in mills) of the single-quote sweep
MaxMills == 3000

(***************************************************************************)
(* Single-precision arithmetic (f32: 24 bits of mantissa, round to         *)
(* nearest, ties to even), as used by lines 158, 161, 164, 167.            *)
(***************************************************************************)
MantBits == 24

MantLo == 2 ^ (MantBits - 1)

MantHi == 2 ^ MantBits

Abs(x) == IF x < 0 THEN -x ELSE x

F32Zero == [m |-> 0, e |-> 0]

\* p / q rounded to the nearest integer, ties to even (p >= 0, q > 0)
RoundEvenDiv(p, q) ==
    LET f == p \div q
        r == p % q
    IN  IF 2 * r > q \/ (2 * r = q /\ f % 2 = 1) THEN f + 1 ELSE f

\* a mantissa that rounding carried up to 2^24 is renormalised
Renorm(m, e) == IF m = MantHi THEN [m |-> MantLo, e |-> e + 1] ELSE [m |-> m, e |-> e]

\* p / (q * 2^k) >= 2^24: the smallest k that brings the quotient below 2^24
RECURSIVE ShiftDown(_, _, _)
ShiftDown(p, q, k) ==
    IF p \div (q * 2 ^ k) < MantHi THEN k ELSE ShiftDown(p, q, k + 1)

\* long division: shift quotient bits in until the mantissa has 24 bits
RECURSIVE ShiftUp(_, _, _, _)
ShiftUp(i, r, q, k) ==
    IF i >= MantLo
    THEN LET up == 2 * r > q \/ (2 * r = q /\ i % 2 = 1)
         IN  Renorm(IF up THEN i + 1 ELSE i, -k)
    ELSE LET bit == IF 2 * r >= q THEN 1 ELSE 0
         IN  ShiftUp(2 * i + bit, 2 * r - bit * q, q, k + 1)

\* the f32 nearest to p / q (p >= 0, q > 0)
F32FromRatio(p, q) ==
    IF p = 0 THEN F32Zero
    ELSE IF p \div q >= MantHi
         THEN LET k == ShiftDown(p, q, 1)
              IN  Renorm(RoundEvenDiv(p, q * 2 ^ k), k)
         ELSE ShiftUp(p \div q, p % q, q, 0)

\* the f32 nearest to sign * (p / q) * 2^e
F32Scaled(sign, p, q, e) ==
    LET r == F32FromRatio(p, q)
    IN  IF r.m = 0 THEN F32Zero ELSE [m |-> sign * r.m, e |-> r.e + e]

Sign(x) == IF x < 0 THEN -1 ELSE 1

\* serde_json reads the decimal number into an f32 field (line 114)
ParseF32(mills) == F32Scaled(Sign(mills), Abs(mills), 1000, 0)

\* c * 100.0 (lines 158, 161, 164, 167)
F32Mul100(c) == F32Scaled(Sign(c.m), Abs(c.m) * 100, 1, c.e)

\* c / 12.0 (lines 161, 167)
F32Div12(c) == F32Scaled(Sign(c.m), Abs(c.m), 12, c.e)

\* f32::round: to the nearest integer, ties away from zero
F32Round(c) ==
    IF c.e >= 0 THEN c.m * 2 ^ c.e
    ELSE IF c.e < -MantBits THEN 0
    ELSE LET q == 2 ^ (-c.e)
         IN  Sign(c.m) * ((Abs(c.m) + q \div 2) \div q)

\* `as usize` on a float saturates: a negative value becomes 0 (and one above
\* usize::MAX becomes usize::MAX, far beyond any price modelled here)
AsUsize(n) == IF n < 0 THEN 0 ELSE n

(***************************************************************************)
(* Results (the `?` of lines 95-97 and 148-150) and responses.             *)
(***************************************************************************)
Ok(v) == [ok |-> TRUE, val |-> v]

Err(msg) == [ok |-> FALSE, err |-> msg]

NoResponse == [status |-> 0, type |-> "none"]

\* impl IntoResponse for Error: status 500, the error's text as the body
ErrorIntoResponse(msg) == [status |-> 500, type |-> "text", text |-> msg]

\* reqwest's error when the request cannot be sent or no answer arrives
ErrSend == "error sending request"

\* reqwest's error when the answer's body cannot be read to its end
ErrBody == "error reading response body"

SeqsUpTo(S, n) == UNION {[1..k -> S] : k \in 0..n}

(***************************************************************************)
(* Drivers (lines 83-92): what serde derives for Drivers and Driver.       *)
(* A JSON object is a record; a JSON array a sequence.                     *)
(***************************************************************************)
\* Driver read with both fields taken from Name
DecodeDriverNameTwice(obj) ==
    IF "Name" \notin DOMAIN obj THEN Err("missing field Name")
    ELSE IF "Code" \notin DOMAIN obj THEN Err("missing field Code")
    ELSE Ok([name |-> obj["Name"], code |-> obj["Name"]])

\* Deserialize for Driver: rename_all(deserialize = "PascalCase"); unknown
\* fields are skipped
DecodeDriver(obj) ==
    IF "Name" \notin DOMAIN obj THEN Err("missing field Name")
    ELSE IF "Code" \notin DOMAIN obj THEN Err("missing field Code")
    ELSE Ok([name |-> obj["Name"], code |-> obj["Code"]])

\* Deserialize for Vec<Driver>: the first element that fails fails the whole
RECURSIVE DecodeDriverItems(_)
DecodeDriverItems(items) ==
    IF items = <<>> THEN Ok(<<>>)
    ELSE LET h == DecodeDriver(Head(items))
         IN  IF ~h.ok THEN h
             ELSE LET t == DecodeDriverItems(Tail(items))
                  IN  IF ~t.ok THEN t ELSE Ok(<<h.val>> \o t.val)

\* serde_json::from_slice::<Drivers> (line 97); Drivers is transparent
DecodeDrivers(body) ==
    CASE body.shape = "array"  -> DecodeDriverItems(body.items)
      [] body.shape = "object" -> Err("invalid type: map, expected a sequence")
      [] OTHER                 -> Err("expected value")

\* Serialize for Driver: the rename covers deserialization only, so the
\* fields are written under their Rust names
EncodeDriver(d) == [name |-> d.name, code |-> d.code]

\* Serialize for Drivers (transparent): a JSON array, element by element
EncodeDrivers(ds) == [i \in 1..Len(ds) |-> EncodeDriver(ds[i])]

(***************************************************************************)
(* The upstream price answer (lines 101-115).                              *)
(***************************************************************************)
I16Min == -32768

I16Max == 32767

\* Plan without its catch-all variant: an unknown name is an error
DecodePlanClosed(s) ==
    CASE s = "Connect"    -> Ok("Connect")
      [] s = "Production" -> Ok("Production")
      [] OTHER            -> Err("unknown variant, expected Connect or Production")

\* Deserialize for Plan: rename_all = "PascalCase", #[serde(other)] Other
DecodePlan(s) ==
    CASE s = "Connect"    -> Ok("Connect")
      [] s = "Production" -> Ok("Production")
      [] OTHER            -> Ok("Other")

\* Deserialize for i16: a JSON integer outside the type's range is refused
DecodeI16(n) ==
    IF n < I16Min \/ n > I16Max
    THEN Err("invalid value: integer, expected i16")
    ELSE Ok(n)

\* Deserialize for (Plan, i16, f32, f32): a positional tuple of 4 elements
DecodeQuote(entry) ==
    IF Len(entry) < 2 THEN Err("invalid length, expected a tuple of size 4")
    ELSE LET plan == DecodePlan(entry[1])
             a    == DecodeI16(entry[2])
         IN  IF ~plan.ok THEN plan
             ELSE IF ~a.ok THEN a
             ELSE IF Len(entry) # 4
                  THEN Err("invalid length, expected a tuple of size 4")
                  ELSE Ok(<<plan.val, a.val, ParseF32(entry[3]), ParseF32(entry[4])>>)

\* a decoder that leaves out the entries it cannot read
RECURSIVE DecodeQuotesLenient(_)
DecodeQuotesLenient(entries) ==
    IF entries = <<>> THEN Ok(<<>>)
    ELSE LET h == DecodeQuote(Head(entries))
             t == DecodeQuotesLenient(Tail(entries))
         IN  IF ~h.ok THEN t ELSE Ok(<<h.val>> \o t.val)

RECURSIVE DecodeQuotes(_)
DecodeQuotes(entries) ==
    IF entries = <<>> THEN Ok(<<>>)
    ELSE LET h == DecodeQuote(Head(entries))
         IN  IF ~h.ok THEN h
             ELSE LET t == DecodeQuotes(Tail(entries))
                  IN  IF ~t.ok THEN t ELSE Ok(<<h.val>> \o t.val)

\* serde_json::from_slice::<GetPricesResponse> (line 150)
DecodePricesResponse(body) ==
    CASE body.shape = "object" ->
           IF "Type" \notin DOMAIN body THEN Err("missing field Type")
           ELSE IF "Results" \notin DOMAIN body THEN Err("missing field Results")
           ELSE LET rs == DecodeQuotes(body["Results"])
                IN  IF ~rs.ok THEN rs
                    ELSE Ok([type |-> body["Type"], results |-> rs.val])
      [] body.shape = "array" ->
           \* a struct also decodes from an array, positionally: `type` first
           IF body.items = <<>>
           THEN Err("invalid length 0, expected struct GetPricesResponse")
           ELSE Err("invalid type: map, expected a string")
      [] OTHER -> Err("expected value")

(***************************************************************************)
(* The price grid and the normalizer (lines 121-131, 152-173).             *)
(***************************************************************************)
\* a default that is not zero in every field
PlanPriceDefaultStale == [connect |-> 0, production |-> 1]

\* PlanPrice::default()
PlanPriceDefault == [connect |-> 0, production |-> 0]

\* Prices::default()
PricesDefault == [yearly |-> PlanPriceDefault, monthly |-> PlanPriceDefault]

\* (c * 100.0).round() as usize
MonthlyCents(c) == AsUsize(F32Round(F32Mul100(c)))

\* the yearly price taken to cents first and divided by 12 afterwards
YearlyCentsDivideLast(c) == AsUsize(F32Round(F32Mul100(c))) \div 12

\* ((c / 12.0) * 100.0).round() as usize
YearlyCents(c) == AsUsize(F32Round(F32Mul100(F32Div12(c))))

\* the closure with the guard of its first arm left out: a Connect entry of
\* any period but 365 lands in monthly.connect
FoldFnAnyPeriod(p, q) ==
    LET plan == q[1]
        a    == q[2]
        c    == q[4]
    IN  CASE plan = "Connect" /\ a = 365 ->
               [p EXCEPT !.yearly.connect = YearlyCents(c)]
          [] plan = "Connect" /\ a # 365 ->
               [p EXCEPT !.monthly.connect = MonthlyCents(c)]
          [] plan = "Production" /\ a = 30 ->
               [p EXCEPT !.monthly.production = MonthlyCents(c)]
          [] plan = "Production" /\ a = 365 ->
               [p EXCEPT !.yearly.production = YearlyCents(c)]
          [] OTHER -> p

\* the closure filling a slot only while it is still 0: the first entry wins
FoldFnKeepFirst(p, q) ==
    LET plan == q[1]
        a    == q[2]
        c    == q[4]
    IN  CASE plan = "Connect" /\ a = 30 /\ p.monthly.connect = 0 ->
               [p EXCEPT !.monthly.connect = MonthlyCents(c)]
          [] plan = "Connect" /\ a = 365 /\ p.yearly.connect = 0 ->
               [p EXCEPT !.yearly.connect = YearlyCents(c)]
          [] plan = "Production" /\ a = 30 /\ p.monthly.production = 0 ->
               [p EXCEPT !.monthly.production = MonthlyCents(c)]
          [] plan = "Production" /\ a = 365 /\ p.yearly.production = 0 ->
               [p EXCEPT !.yearly.production = YearlyCents(c)]
          [] OTHER -> p

\* the closure of the fold: |mut prices, (plan, a, _b, c)| { match plan ... }
FoldFn(p, q) ==
    LET plan == q[1]
        a    == q[2]
        c    == q[4]
    IN  CASE plan = "Connect" /\ a = 30 ->
               [p EXCEPT !.monthly.connect = MonthlyCents(c)]
          [] plan = "Connect" /\ a = 365 ->
               [p EXCEPT !.yearly.connect = YearlyCents(c)]
          [] plan = "Production" /\ a = 30 ->
               [p EXCEPT !.monthly.production = MonthlyCents(c)]
          [] plan = "Production" /\ a = 365 ->
               [p EXCEPT !.yearly.production = YearlyCents(c)]
          [] OTHER -> p

\* Iterator::fold, left to right
RECURSIVE Fold(_, _)
Fold(acc, quotes) ==
    IF quotes = <<>> THEN acc ELSE Fold(FoldFn(acc, Head(quotes)), Tail(quotes))

\* Serialize for Prices and PlanPrice: no rename, the Rust field names
EncodePrices(p) ==
    [yearly  |-> [connect |-> p.yearly.connect, production |-> p.yearly.production],
     monthly |-> [connect |-> p.monthly.connect, production |-> p.monthly.production]]

(***************************************************************************)
(* The CORS policy (lines 54-65).  Each builder method of CorsLayer sets   *)
(* its field: a second allow_origin replaces the first.                    *)
(***************************************************************************)
OriginLocalhost == "http://localhost:3000"

OriginApp == "https://app.ripee.fr"

\* CorsLayer::new(): nothing allowed yet
CorsNew == [allow_origin |-> {}, allow_methods |-> {}]

\* CorsLayer::allow_origin(value): the policy's origin is set to `value`
AllowOrigin(layer, origin) == [layer EXCEPT !.allow_origin = {origin}]

\* CorsLayer::allow_methods(list)
AllowMethods(layer, methods) == [layer EXCEPT !.allow_methods = methods]

\* the policy main ends up with
CorsBuilt ==
    AllowMethods(AllowOrigin(AllowOrigin(CorsNew, OriginLocalhost), OriginApp), {"GET"})

(***************************************************************************)
(* What the environment supplies: inbound requests and upstream answers.   *)
(***************************************************************************)
Reqs == 1..NumReqs

\* inbound product catalogs (HashMap<String, usize>, line 119) as sets of pairs
Catalogs == {{}, {<<"PF-RIP", 1>>}}

\* HashMap::into_iter().collect::<Vec<_>>() (line 134): some order of the pairs
Orderings(S) ==
    {s \in [1..Cardinality(S) -> S] :
        \A i, j \in 1..Cardinality(S) : s[i] = s[j] => i = j}

\* statuses the upstream may answer with
Statuses == {200, 500}

NoBody == [shape |-> "none"]

\* bytes that are no JSON at all
Garbage == [shape |-> "garbage"]

DriverObjects ==
    {[Name |-> "HP", Code |-> "hp"],
     [Name |-> "Epson", Code |-> "ep", Vendor |-> "x"],
     [name |-> "HP", code |-> "hp"]}

DriverBodies ==
    {[shape |-> "array", items |-> s] : s \in SeqsUpTo(DriverObjects, MaxDrivers)}

\* Results entries: [PlanName, periodDays, listPrice, discountedPrice]
WireQuotes ==
    {<<"Connect", 30, 35000, 29990>>,
     <<"Connect", 365, 420000, 299000>>,
     <<"Enterprise", 30, 120000, 99000>>,
     <<"Production", 7, 12000, 9990>>,
     <<"Connect", 40000, 35000, 1000>>}

PriceBodies ==
    {[shape |-> "object", Type |-> "prices", Results |-> s] :
        s \in SeqsUpTo(WireQuotes, MaxResults)}
    \cup {[shape |-> "object", Results |-> <<>>]}

\* the bodies the upstream may answer a call of handler k with
Bodies(k) ==
    IF k = "drivers"
    THEN DriverBodies \cup {Garbage, [shape |-> "object", Type |-> "error", Results |-> <<>>]}
    ELSE PriceBodies \cup {Garbage, [shape |-> "array", items |-> <<>>]}

\* quote sequences for the normalizer alone
NormWireQuotes ==
    {<<p, a, 35000, d>> : p \in {"Connect", "Production", "Enterprise"},
                          a \in {30, 365},
                          d \in {29990, 299000}}
    \cup {<<"Connect", 7, 35000, 29990>>, <<"Production", 7, 35000, 299000>>}

\* one recognized quote of every price from 0 to MaxMills
SweepQuotes ==
    {<<p, a, 35000, d>> : p \in {"Connect", "Production"},
                          a \in {30, 365},
                          d \in 0..MaxMills}

ExampleResults ==
    {<<<<"Connect", 365, 150000, 120000>>>>,
     <<<<"Production", 30, 60000, 49990>>>>,
     <<<<"Connect", 30, 35000, -5000>>>>,
     <<<<"Production", 365, 35000, -5000>>>>,
     << <<"Connect", 30, 35000, 29990>>,
        <<"Connect", 365, 420000, 299000>>,
        <<"Production", 30, 60000, 49990>> >>}

NormResults ==
    SeqsUpTo(NormWireQuotes, MaxQuotes)
    \cup {<<q>> : q \in SweepQuotes}
    \cup ExampleResults

(***************************************************************************)
(* State.                                                                  *)
(***************************************************************************)
VARIABLES
    mainpc,     \* where main is: "origin1", "origin2", "methods", "router", "serving"
    cors,       \* the CorsLayer being built, then applied to both routes
    pc,         \* pc[r]: where request r's handler is
    kind,       \* kind[r]: "drivers" or "prices" (the route taken)
    products,   \* products[r]: the inbound catalog of a /prices request
    calls,      \* calls[r]: how many outbound calls request r has made
    inflight,   \* inflight[r]: the outbound call awaiting its answer
    upStatus,   \* upStatus[r]: the status of the upstream answer (0: none)
    upBody,     \* upBody[r]: the body read from the upstream answer
    results,    \* results[r]: the decoded quote tuples
    idx,        \* idx[r]: how many tuples the fold has consumed
    prices,     \* prices[r]: the fold's accumulator
    resp        \* resp[r]: the response of request r

vars == <<mainpc, cors, pc, kind, products, calls, inflight, upStatus, upBody, results,
          idx, prices, resp>>

mainVars == <<mainpc, cors>>

upVars == <<upStatus, upBody>>

foldVars == <<results, idx, prices>>

reqVars == <<kind, products>>

callVars == <<calls, inflight>>

NoCall == [method |-> "none"]

ListDriversUrl == "https://order.printfactory.cloud/PF/_driverList.asp?Product=PrintFactory"

GetPricesUrl == "https://order.printfactory.cloud/PF/_prices.asp"

\* the json! body of lines 138-144
PricesRequestBody(ps) ==
    [Product |-> "PrintFactory", Currency |-> "EUR", Products |-> ps,
     Country |-> "", Dealer |-> "null"]

DriversCall == [method |-> "GET", url |-> ListDriversUrl]

PricesCall(ps) == [method |-> "POST", url |-> GetPricesUrl, body |-> PricesRequestBody(ps)]

\* one accumulator for the whole process instead of one per call
AccShared(ps, r) == ps[1]

\* the accumulator the closure is handed: the fold's own local value
Acc(ps, r) == ps[r]

\* Ok(Json(drivers)) and Ok(Json(prices)): status 200, the value as JSON
DriversResponse(ds) == [status |-> 200, type |-> "json", drivers |-> EncodeDrivers(ds)]

PricesResponse(p) == [status |-> 200, type |-> "json", prices |-> EncodePrices(p)]

Init ==
    /\ mainpc = "origin1"
    /\ cors = CorsNew
    /\ pc = [r \in Reqs |-> "idle"]
    /\ kind = [r \in Reqs |-> "none"]
    /\ products = [r \in Reqs |-> {}]
    /\ calls = [r \in Reqs |-> 0]
    /\ inflight = [r \in Reqs |-> NoCall]
    /\ upStatus = [r \in Reqs |-> 0]
    /\ upBody = [r \in Reqs |-> NoBody]
    /\ results = [r \in Reqs |-> <<>>]
    /\ idx = [r \in Reqs |-> 0]
    /\ prices = [r \in Reqs |-> PricesDefault]
    /\ resp = [r \in Reqs |-> NoResponse]

(***************************************************************************)
(* main (lines 54-80).                                                     *)
(***************************************************************************)
MainAllowOriginLocalhost ==
    /\ mainpc = "origin1"
    /\ cors' = AllowOrigin(cors, OriginLocalhost)
    /\ mainpc' = "origin2"
    /\ UNCHANGED <<pc, reqVars, callVars, upVars, foldVars, resp>>

MainAllowOriginApp ==
    /\ mainpc = "origin2"
    /\ cors' = AllowOrigin(cors, OriginApp)
    /\ mainpc' = "methods"
    /\ UNCHANGED <<pc, reqVars, callVars, upVars, foldVars, resp>>

MainAllowMethods ==
    /\ mainpc = "methods"
    /\ cors' = AllowMethods(cors, {"GET"})
    /\ mainpc' = "router"
    /\ UNCHANGED <<pc, reqVars, callVars, upVars, foldVars, resp>>

\* the router with the layer on both routes, bound and served
MainServe ==
    /\ mainpc = "router"
    /\ mainpc' = "serving"
    /\ UNCHANGED <<cors, pc, reqVars, callVars, upVars, foldVars, resp>>

(***************************************************************************)
(* Routing: a request reaches its handler.                                 *)
(***************************************************************************)
ReceiveDrivers(r) ==
    /\ mainpc = "serving"
    /\ pc[r] = "idle"
    /\ kind' = [kind EXCEPT ![r] = "drivers"]
    /\ pc' = [pc EXCEPT ![r] = "drivers_get"]
    /\ UNCHANGED <<mainVars, products, callVars, upVars, foldVars, resp>>

ReceivePrices(r) ==
    /\ mainpc = "serving"
    /\ pc[r] = "idle"
    /\ \E cat \in Catalogs : products' = [products EXCEPT ![r] = cat]
    /\ kind' = [kind EXCEPT ![r] = "prices"]
    /\ pc' = [pc EXCEPT ![r] = "prices_send"]
    /\ UNCHANGED <<mainVars, callVars, upVars, foldVars, resp>>

(***************************************************************************)
(* list_drivers (lines 94-99).                                             *)
(***************************************************************************)
\* reqwest::get(LIST_DRIVERS_URL): the call goes out
ListDriversGet(r) ==
    /\ pc[r] = "drivers_get"
    /\ calls' = [calls EXCEPT ![r] = @ + 1]
    /\ inflight' = [inflight EXCEPT ![r] = DriversCall]
    /\ pc' = [pc EXCEPT ![r] = "drivers_await"]
    /\ UNCHANGED <<mainVars, reqVars, upVars, foldVars, resp>>

\* .await?: the call fails, or the answer's head arrives, whatever its status
ListDriversAwait(r) ==
    /\ pc[r] = "drivers_await"
    /\ inflight' = [inflight EXCEPT ![r] = NoCall]
    /\ \/ /\ resp' = [resp EXCEPT ![r] = ErrorIntoResponse(ErrSend)]
          /\ pc' = [pc EXCEPT ![r] = "done"]
          /\ UNCHANGED upStatus
       \/ /\ \E st \in Statuses : upStatus' = [upStatus EXCEPT ![r] = st]
          /\ pc' = [pc EXCEPT ![r] = "drivers_bytes"]
          /\ UNCHANGED resp
    /\ UNCHANGED <<mainVars, reqVars, calls, upBody, foldVars>>

\* res.bytes().await?
ListDriversBytes(r) ==
    /\ pc[r] = "drivers_bytes"
    /\ \/ /\ resp' = [resp EXCEPT ![r] = ErrorIntoResponse(ErrBody)]
          /\ pc' = [pc EXCEPT ![r] = "done"]
          /\ UNCHANGED upBody
       \/ /\ \E b \in Bodies("drivers") : upBody' = [upBody EXCEPT ![r] = b]
          /\ pc' = [pc EXCEPT ![r] = "drivers_decode"]
          /\ UNCHANGED resp
    /\ UNCHANGED <<mainVars, reqVars, callVars, upStatus, foldVars>>

\* serde_json::from_slice(..)?; Ok(Json(drivers))
ListDriversDecode(r) ==
    /\ pc[r] = "drivers_decode"
    /\ LET d == DecodeDrivers(upBody[r])
       IN  resp' = [resp EXCEPT ![r] =
                      IF d.ok THEN DriversResponse(d.val) ELSE ErrorIntoResponse(d.err)]
    /\ pc' = [pc EXCEPT ![r] = "done"]
    /\ UNCHANGED <<mainVars, reqVars, callVars, upVars, foldVars>>

(***************************************************************************)
(* get_prices (lines 133-176).                                             *)
(***************************************************************************)
\* products.0.into_iter().collect(); Client::new().post(..).body(..).send():
\* the map is consumed and the call goes out
GetPricesSend(r) ==
    /\ pc[r] = "prices_send"
    /\ \E ps \in Orderings(products[r]) :
          inflight' = [inflight EXCEPT ![r] = PricesCall(ps)]
    /\ calls' = [calls EXCEPT ![r] = @ + 1]
    /\ products' = [products EXCEPT ![r] = {}]
    /\ pc' = [pc EXCEPT ![r] = "prices_await"]
    /\ UNCHANGED <<mainVars, kind, upVars, foldVars, resp>>

\* .await?: the call fails, or the answer's head arrives, whatever its status
GetPricesAwait(r) ==
    /\ pc[r] = "prices_await"
    /\ inflight' = [inflight EXCEPT ![r] = NoCall]
    /\ \/ /\ resp' = [resp EXCEPT ![r] = ErrorIntoResponse(ErrSend)]
          /\ pc' = [pc EXCEPT ![r] = "done"]
          /\ UNCHANGED upStatus
       \/ /\ \E st \in Statuses : upStatus' = [upStatus EXCEPT ![r] = st]
          /\ pc' = [pc EXCEPT ![r] = "prices_bytes"]
          /\ UNCHANGED resp
    /\ UNCHANGED <<mainVars, reqVars, calls, upBody, foldVars>>

\* res.bytes().await?
GetPricesBytes(r) ==
    /\ pc[r] = "prices_bytes"
    /\ \/ /\ resp' = [resp EXCEPT ![r] = ErrorIntoResponse(ErrBody)]
          /\ pc' = [pc EXCEPT ![r] = "done"]
          /\ UNCHANGED upBody
       \/ /\ \E b \in Bodies("prices") : upBody' = [upBody EXCEPT ![r] = b]
          /\ pc' = [pc EXCEPT ![r] = "prices_decode"]
          /\ UNCHANGED resp
    /\ UNCHANGED <<mainVars, reqVars, callVars, upStatus, foldVars>>

\* serde_json::from_slice(..)?; then the fold starts from Prices::default()
GetPricesDecode(r) ==
    /\ pc[r] = "prices_decode"
    /\ LET d == DecodePricesResponse(upBody[r])
       IN  IF d.ok
           THEN /\ results' = [results EXCEPT ![r] = d.val.results]
                /\ idx' = [idx EXCEPT ![r] = 0]
                /\ prices' = [prices EXCEPT ![r] = PricesDefault]
                /\ pc' = [pc EXCEPT ![r] = "fold"]
                /\ UNCHANGED resp
           ELSE /\ resp' = [resp EXCEPT ![r] = ErrorIntoResponse(d.err)]
                /\ pc' = [pc EXCEPT ![r] = "done"]
                /\ UNCHANGED foldVars
    /\ UNCHANGED <<mainVars, reqVars, callVars, upVars>>

\* one turn of the fold: the closure applied to the next tuple
FoldStep(r) ==
    /\ pc[r] = "fold"
    /\ idx[r] < Len(results[r])
    /\ prices' = [prices EXCEPT ![r] = FoldFn(Acc(prices, r), results[r][idx[r] + 1])]
    /\ idx' = [idx EXCEPT ![r] = @ + 1]
    /\ UNCHANGED <<mainVars, pc, reqVars, callVars, upVars, results, resp>>

\* Ok(Json(prices))
GetPricesReturn(r) ==
    /\ pc[r] = "fold"
    /\ idx[r] = Len(results[r])
    /\ resp' = [resp EXCEPT ![r] = PricesResponse(prices[r])]
    /\ pc' = [pc EXCEPT ![r] = "done"]
    /\ UNCHANGED <<mainVars, reqVars, callVars, upVars, foldVars>>

Next ==
    \/ MainAllowOriginLocalhost
    \/ MainAllowOriginApp
    \/ MainAllowMethods
    \/ MainServe
    \/ \E r \in Reqs :
          \/ ReceiveDrivers(r)
          \/ ReceivePrices(r)
          \/ ListDriversGet(r)
          \/ ListDriversAwait(r)
          \/ ListDriversBytes(r)
          \/ ListDriversDecode(r)
          \/ GetPricesSend(r)
          \/ GetPricesAwait(r)
          \/ GetPricesBytes(r)
          \/ GetPricesDecode(r)
          \/ FoldStep(r)
          \/ GetPricesReturn(r)

\* the gateway: startup, then concurrent requests
Spec == Init /\ [][Next]_vars

(***************************************************************************)
(* The normalizer alone: request 1 is a /prices request whose upstream     *)
(* answer has been decoded (line 150 passed); the fold runs on it.         *)
(***************************************************************************)
NormBody(rs) == [shape |-> "object", Type |-> "prices", Results |-> rs]

InitNorm ==
    /\ mainpc = "serving"
    /\ cors = CorsBuilt
    /\ pc = [r \in Reqs |-> IF r = 1 THEN "fold" ELSE "idle"]
    /\ kind = [r \in Reqs |-> IF r = 1 THEN "prices" ELSE "none"]
    /\ products = [r \in Reqs |-> {}]
    /\ calls = [r \in Reqs |-> IF r = 1 THEN 1 ELSE 0]
    /\ inflight = [r \in Reqs |-> NoCall]
    /\ upStatus = [r \in Reqs |-> IF r = 1 THEN 200 ELSE 0]
    /\ \E rs \in NormResults :
          /\ upBody = [r \in Reqs |-> IF r = 1 THEN NormBody(rs) ELSE NoBody]
          /\ results = [r \in Reqs |->
                          IF r = 1 THEN DecodePricesResponse(NormBody(rs)).val.results
                          ELSE <<>>]
    /\ idx = [r \in Reqs |-> 0]
    /\ prices = [r \in Reqs |-> PricesDefault]
    /\ resp = [r \in Reqs |-> NoResponse]

NextNorm == FoldStep(1) \/ GetPricesReturn(1)

SpecNorm == InitNorm /\ [][NextNorm]_vars

(***************************************************************************)
(* Properties of the normalizer (checked under SpecNorm on request 1).     *)
(***************************************************************************)
Done(r) == pc[r] = "done"

\* the upstream Results array request r was answered with
Wire(r) == upBody[r]["Results"]

\* a wire entry the normalizer has a slot for
WireRecognized(e) == e[1] \in {"Connect", "Production"} /\ e[2] \in {30, 365}

SlotPlans == {"Connect", "Production"}

SlotPeriods == {30, 365}

\* the slot of plan pl and period a in grid g
Slot(g, pl, a) ==
    CASE a = 30  /\ pl = "Connect"    -> g["monthly"]["connect"]
      [] a = 30  /\ pl = "Production" -> g["monthly"]["production"]
      [] a = 365 /\ pl = "Connect"    -> g["yearly"]["connect"]
      [] a = 365 /\ pl = "Production" -> g["yearly"]["production"]

\* the positions of the entries of w that are for slot (pl, a)
Matching(w, pl, a) == {i \in 1..Len(w) : w[i][1] = pl /\ w[i][2] = a}

Last(S) == CHOOSE i \in S : \A j \in S : j <= i

\* C1: the grid normalization returns is the grid of the same sequence with
\* every entry of an unrecognized plan or period removed; and at every turn
\* of the fold the accumulator is the grid of the recognized entries so far.
C1_FilterInvariance ==
    LET kept(n) == DecodeQuotes(SelectSeq(SubSeq(Wire(1), 1, n), WireRecognized)).val
    IN  /\ pc[1] = "fold" => prices[1] = Fold(PricesDefault, kept(idx[1]))
        /\ Done(1) => resp[1] = PricesResponse(Fold(PricesDefault, kept(Len(Wire(1)))))

C1_Witness ==
    /\ Done(1)
    /\ \E i, j \in 1..Len(Wire(1)) :
          /\ i < j
          /\ ~WireRecognized(Wire(1)[i])
          /\ WireRecognized(Wire(1)[j])
    /\ \E k \in 1..Len(Wire(1)) : Wire(1)[k][1] = "Connect" /\ Wire(1)[k][2] = 7
    /\ resp[1]["prices"] # PricesDefault

\* C2: a slot with matching entries holds the value computed from the last of
\* them in sequence order, whatever the earlier ones were.
C2_LastWins ==
    Done(1) =>
        \A pl \in SlotPlans, a \in SlotPeriods :
            LET M == Matching(Wire(1), pl, a)
            IN  M # {} =>
                  Slot(resp[1]["prices"], pl, a) =
                      IF a = 30 THEN MonthlyCents(results[1][Last(M)][4])
                                ELSE YearlyCents(results[1][Last(M)][4])

C2_Witness ==
    /\ Done(1)
    /\ \E i, j \in Matching(Wire(1), "Connect", 30) :
          /\ i < j
          /\ j = Last(Matching(Wire(1), "Connect", 30))
          /\ Wire(1)[i][4] = 299000
          /\ Wire(1)[j][4] = 29990
    /\ resp[1]["prices"]["monthly"]["connect"] = 2999

\* C3: normalization never fails: the fold has a turn for every entry (one of
\* its two steps is always possible until it has returned), and it returns,
\* with status 200, a grid of exactly the four slots, each a natural number,
\* 0 for every slot the sequence has no entry for; the empty sequence gives
\* the all-zero grid.
C3_Total ==
    /\ pc[1] = "fold" => idx[1] <= Len(results[1]) /\ Len(results[1]) = Len(Wire(1))
    /\ Done(1) =>
         /\ resp[1]["status"] = 200
         /\ resp[1]["type"] = "json"
         /\ DOMAIN resp[1]["prices"] = {"yearly", "monthly"}
         /\ \A cad \in {"yearly", "monthly"} :
               /\ DOMAIN resp[1]["prices"][cad] = {"connect", "production"}
               /\ \A tier \in {"connect", "production"} :
                     resp[1]["prices"][cad][tier] \in Nat
         /\ \A pl \in SlotPlans, a \in SlotPeriods :
               Matching(Wire(1), pl, a) = {} => Slot(resp[1]["prices"], pl, a) = 0
         /\ Wire(1) = <<>> =>
               resp[1]["prices"] = [yearly  |-> [connect |-> 0, production |-> 0],
                                    monthly |-> [connect |-> 0, production |-> 0]]

C3_Witness ==
    /\ Done(1)
    /\ Len(Wire(1)) = 3
    /\ Matching(Wire(1), "Production", 365) = {}
    /\ Matching(Wire(1), "Connect", 365) # {}
    /\ \E i \in 1..3 : ~WireRecognized(Wire(1)[i])
    /\ resp[1]["prices"]["yearly"]["production"] = 0
    /\ resp[1]["prices"]["yearly"]["connect"] > 0

\* n is an integer nearest to mills / den
Nearest(n, mills, den) == 2 * Abs(n * den - mills) <= den

\* C4: for a non-negative discounted price d (in mills) of the deciding entry,
\* a monthly slot is an integer nearest to d * 100 (mills / 10) and a yearly
\* slot an integer nearest to (d / 12) * 100 (mills / 120): 120.00 a year
\* gives 1000, 299.00 a year 2492, 49.99 a month 4999.
C4_UnitConversion ==
    Done(1) =>
        \A pl \in SlotPlans, a \in SlotPeriods :
            LET M == Matching(Wire(1), pl, a)
                d == Wire(1)[Last(M)][4]
                v == Slot(resp[1]["prices"], pl, a)
            IN  (M # {} /\ d >= 0) =>
                  /\ Nearest(v, d, IF a = 30 THEN 10 ELSE 120)
                  /\ (a = 365 /\ d = 120000) => v = 1000
                  /\ (a = 365 /\ d = 299000) => v = 2492
                  /\ (a = 30 /\ d = 49990) => v = 4999

C4_Witness ==
    /\ Done(1)
    /\ Wire(1) = << <<"Connect", 30, 35000, 29990>>,
                    <<"Connect", 365, 420000, 299000>>,
                    <<"Production", 30, 60000, 49990>> >>
    /\ resp[1]["prices"] = [yearly  |-> [connect |-> 2492, production |-> 0],
                            monthly |-> [connect |-> 2999, production |-> 4999]]

(***************************************************************************)
(* Properties of the gateway (checked under Spec).                         *)
(***************************************************************************)
\* request r's outbound call was answered (a status arrived)
Answered(r) == upStatus[r] # 0

\* request r read the body of the answer
BodyRead(r) == upBody[r]["shape"] # "none"

\* a body that is a JSON array of objects with the fields Name and Code
WellFormedDrivers(b) ==
    /\ b["shape"] = "array"
    /\ \A i \in 1..Len(b["items"]) : {"Name", "Code"} \subseteq DOMAIN b["items"][i]

\* a body of the upstream price shape: Type, and Results of 4-tuples
RightShapePrices(b) ==
    /\ b["shape"] = "object"
    /\ {"Type", "Results"} \subseteq DOMAIN b
    /\ \A i \in 1..Len(b["Results"]) : Len(b["Results"][i]) = 4

\* ... whose periods all fit the i16 they are read into
WellFormedPrices(b) ==
    /\ RightShapePrices(b)
    /\ \A i \in 1..Len(b["Results"]) : b["Results"][i][2] \in I16Min..I16Max

WellFormed(k, b) == IF k = "drivers" THEN WellFormedDrivers(b) ELSE WellFormedPrices(b)

IsErrorResponse(x) == DOMAIN x = {"status", "type", "text"} /\ x["status"] = 500 /\ x["type"] = "text"

\* C5: an upstream answer of a non-2xx status ends the request with a
\* 500-class response, whatever its body.
C5_NonSuccessStatusFails ==
    \A r \in Reqs :
        (Done(r) /\ Answered(r) /\ upStatus[r] \notin 200..299) =>
            resp[r]["status"] \in 500..599

\* C6: a failed send, a failed body read and a body that does not decode each
\* end the request with status 500 and the error's text, and with no grid or
\* driver list; status 200 is answered only when the whole body decoded.
C6_FailuresAre500 ==
    \A r \in Reqs :
        Done(r) =>
            /\ ~Answered(r) => resp[r] = [status |-> 500, type |-> "text", text |-> ErrSend]
            /\ (Answered(r) /\ ~BodyRead(r)) =>
                  resp[r] = [status |-> 500, type |-> "text", text |-> ErrBody]
            /\ (BodyRead(r) /\ ~WellFormed(kind[r], upBody[r])) =>
                  /\ IsErrorResponse(resp[r])
                  /\ resp[r]["text"] \notin {ErrSend, ErrBody}
            /\ resp[r]["status"] = 200 =>
                  /\ BodyRead(r)
                  /\ WellFormed(kind[r], upBody[r])
                  /\ kind[r] = "drivers" =>
                        Len(resp[r]["drivers"]) = Len(upBody[r]["items"])
                  /\ kind[r] = "prices" => Len(results[r]) = Len(Wire(r))
            /\ resp[r]["status"] \in {200, 500}

C6_Witness ==
    \E r \in Reqs :
        /\ Done(r)
        /\ kind[r] = "prices"
        /\ BodyRead(r)
        /\ upBody[r]["shape"] = "object"
        /\ "Results" \in DOMAIN upBody[r]
        /\ Len(Wire(r)) = 2
        /\ WireRecognized(Wire(r)[1])
        /\ Wire(r)[2][2] \notin I16Min..I16Max
        /\ IsErrorResponse(resp[r])

\* request r answered 200 to GET /drivers
DriversSuccess(r) == Done(r) /\ kind[r] = "drivers" /\ resp[r]["status"] = 200

\* C7 as claimed: the objects of the response carry the upstream values under
\* the keys Name and Code.
C7_PascalCaseKeys ==
    \A r \in Reqs :
        DriversSuccess(r) =>
            /\ Len(resp[r]["drivers"]) = Len(upBody[r]["items"])
            /\ \A i \in 1..Len(resp[r]["drivers"]) :
                  /\ {"Name", "Code"} \subseteq DOMAIN resp[r]["drivers"][i]
                  /\ resp[r]["drivers"][i]["Name"] = upBody[r]["items"][i]["Name"]
                  /\ resp[r]["drivers"][i]["Code"] = upBody[r]["items"][i]["Code"]

\* C7 amended: on upstream success the response is a JSON array of one object
\* per element of the upstream array, in the same order, each with exactly the
\* keys name and code, holding the upstream Name and Code values.
C7_LowercaseKeys ==
    \A r \in Reqs :
        DriversSuccess(r) =>
            /\ Len(resp[r]["drivers"]) = Len(upBody[r]["items"])
            /\ \A i \in 1..Len(resp[r]["drivers"]) :
                  /\ DOMAIN resp[r]["drivers"][i] = {"name", "code"}
                  /\ resp[r]["drivers"][i]["name"] = upBody[r]["items"][i]["Name"]
                  /\ resp[r]["drivers"][i]["code"] = upBody[r]["items"][i]["Code"]

C7_Witness ==
    \E r \in Reqs :
        /\ DriversSuccess(r)
        /\ Len(resp[r]["drivers"]) = 2
        /\ resp[r]["drivers"][1] = [name |-> "Epson", code |-> "ep"]
        /\ resp[r]["drivers"][2] = [name |-> "HP", code |-> "hp"]

\* the grid built from the recognized entries of request r's answer
GridOfRecognized(r) ==
    Fold(PricesDefault, DecodeQuotes(SelectSeq(Wire(r), WireRecognized)).val)

\* C8 as claimed: an answer of the right shape never fails the request,
\* whatever its plan names and whatever integers its periods are; the grid is
\* built from the recognized entries.
C8_AnyPeriodAccepted ==
    \A r \in Reqs :
        (Done(r) /\ kind[r] = "prices" /\ BodyRead(r) /\ RightShapePrices(upBody[r])) =>
            /\ resp[r]["status"] = 200
            /\ resp[r] = PricesResponse(GridOfRecognized(r))

\* C8 amended: the same for answers whose periods are integers from -32768 to
\* 32767 (the range of the i16 they are read into).
C8_I16PeriodAccepted ==
    \A r \in Reqs :
        (Done(r) /\ kind[r] = "prices" /\ BodyRead(r) /\ WellFormedPrices(upBody[r])) =>
            /\ resp[r]["status"] = 200
            /\ resp[r] = PricesResponse(GridOfRecognized(r))

C8_Witness ==
    \E r \in Reqs :
        /\ Done(r)
        /\ kind[r] = "prices"
        /\ BodyRead(r)
        /\ WellFormedPrices(upBody[r])
        /\ Len(Wire(r)) = 2
        /\ \E i, j \in 1..2 :
              /\ Wire(r)[i][1] = "Enterprise"
              /\ Wire(r)[j][2] = 7
        /\ resp[r] = PricesResponse(PricesDefault)

\* C9: once the policy is built and serving, it allows GET only, and both
\* allow-listed origins are among its allowed origins.
C9_BothOriginsAllowed ==
    mainpc = "serving" =>
        /\ cors["allow_methods"] = {"GET"}
        /\ OriginLocalhost \in cors["allow_origin"]
        /\ OriginApp \in cors["allow_origin"]

\* the response to a request of kind k handled alone, given the status st and
\* the body b of its upstream answer (0 and NoBody: none arrived)
HandledAlone(k, st, b) ==
    IF st = 0 THEN ErrorIntoResponse(ErrSend)
    ELSE IF b["shape"] = "none" THEN ErrorIntoResponse(ErrBody)
    ELSE IF k = "drivers"
         THEN LET d == DecodeDrivers(b)
              IN  IF d.ok THEN DriversResponse(d.val) ELSE ErrorIntoResponse(d.err)
         ELSE LET d == DecodePricesResponse(b)
              IN  IF d.ok THEN PricesResponse(Fold(PricesDefault, d.val.results))
                  ELSE ErrorIntoResponse(d.err)

\* C10: in every interleaving each request makes at most one outbound call,
\* its accumulator holds at every turn the grid of its own quotes consumed so
\* far, and its response is the one it would get handled alone.
C10_RequestsIndependent ==
    \A r \in Reqs :
        /\ calls[r] <= 1
        /\ pc[r] = "fold" =>
              prices[r] = Fold(PricesDefault, SubSeq(results[r], 1, idx[r]))
        /\ Done(r) => resp[r] = HandledAlone(kind[r], upStatus[r], upBody[r])

C10_Witness ==
    /\ \A r \in Reqs : Done(r) /\ kind[r] = "prices" /\ resp[r]["status"] = 200
    /\ resp[1]["prices"]["monthly"]["connect"] = 2999
    /\ resp[2]["prices"]["monthly"]["connect"] = 0
    /\ resp[2]["prices"]["yearly"]["connect"] = 2492

=============================================================================
